---- MODULE Spec2Model ----
(***************************************************************************)
(* Model of the stock dashboard front end: the auth-gated dashboard shell  *)
(* (app/page.tsx), the discussion feed with its polling timer              *)
(* (components/Discussion.tsx) and the login/register form                 *)
(* (app/login/page.tsx).                                                   *)
(*                                                                         *)
(* Strings the code inspects (message input, username, password, email)   *)
(* are sequences of one-character strings; strings the code only passes   *)
(* around (error texts, routes, tab names) are TLA+ strings.               *)
(*                                                                         *)
(* One action is one browser task: an event handler or a promise           *)
(* continuation, together with the re-render and the effects it causes.    *)
(* AuthContext, the router and the HTTP server are not part of the         *)
(* sources; they are modelled from their use and from the specification.   *)
(* A state update of an unmounted component has no effect (React), so the  *)
(* requests of a feed that was unmounted stay in flight and end without    *)
(* changing what a later feed shows.                                       *)
(*                                                                         *)
(* Three specifications share the actions: Spec (one visit of the          *)
(* dashboard, with the feed's polling and sends), SessionSpec (logging in  *)
(* and out and moving between pages and tabs while the feed polls) and     *)
(* LoginSpec (the login page with every input of its form).                *)
(***************************************************************************)
EXTENDS Integers, Sequences, FiniteSets, Bags, TLC

(* ------------------------------ bounds --------------------------------- *)
\* feed requests (GET or POST /api/discussions) in flight at the same time
MaxInFlight == 2
\* messages the server creates in one run
MaxId == 2
\* login/register calls in flight at the same time
MaxAuthCalls == 1

(* --------------------------- program constants ------------------------- *)
MinUsernameLen == 3
MinPasswordLen == 6

LoadError == "Failed to load messages"
SendError == "Failed to send message"
UsernameError == "Username must be at least 3 characters long"
PasswordError == "Password must be at least 6 characters long"
EmailError == "Please enter a valid email address"
LoginFailedError == "Invalid username or password"
RegisterFailedError == "Registration failed"

(* ------------------------------- inputs -------------------------------- *)
\* what the user can type into the message box
MessageInputs == { <<>>, <<" ">>, <<" ", "a">> }
\* content of the messages other users post
OtherContent == <<"o">>
\* what the user can type into the fields of the login form
ValidUsername == <<"a", "b", "c">>
ValidPassword == <<"p", "p", "p", "p", "p", "p">>
UsernameInputs == { <<>>, <<"a", "b", " ">>, ValidUsername }
PasswordInputs == { <<>>, <<"p", "p", "p", "p", "p">>, ValidPassword }
EmailInputs == { <<>>, <<"a", "b">>, <<"a", "@", "b">> }
\* the message of the error login or register throws ("": none)
AuthFailureMessages == { "", "Request failed" }
\* ways a request can fail: fetch rejects, the status is not OK, json() rejects
Failures == { "network", "status", "body" }

(* ------------------------------ strings -------------------------------- *)
RECURSIVE TrimStart(_)
TrimStart(s) ==
  IF s = <<>> THEN s
  ELSE IF Head(s) = " " THEN TrimStart(Tail(s)) ELSE s

RECURSIVE TrimEnd(_)
TrimEnd(s) ==
  IF s = <<>> THEN s
  ELSE IF s[Len(s)] = " " THEN TrimEnd(SubSeq(s, 1, Len(s) - 1)) ELSE s

\* String.prototype.trim, without it (a faulty variant)
TrimNothing(s) == s

\* String.prototype.trim
Trim(s) == TrimEnd(TrimStart(s))

\* String.prototype.includes for a one-character needle
Includes(s, c) == \E i \in DOMAIN s : s[i] = c

\* bags (multisets) of requests
BagAdd(B, x) == B (+) SetToBag({x})
BagRemove(B, x) == B (-) SetToBag({x})

(* ------------------------------ state ---------------------------------- *)
VARIABLES
  isAuthenticated, \* AuthContext: a user is logged in
  isLoading,       \* AuthContext: the stored session is still being read
  route,           \* the page the router shows: "/" (Home) or "/login"
  navPending,      \* target of the last router.push not yet carried out
  activeTab,       \* Home: useState<'market' | 'discussion'>
  messages,        \* Discussion: useState<Message[]>
  newMessage,      \* Discussion: the input text
  error,           \* Discussion: the error string
  intervals,       \* live setInterval timers; TRUE: its feed is still mounted
  inflight,        \* the bag of feed requests in flight
  serverMsgs,      \* the server's message list, newest first
  isLogin,         \* LoginPage: login mode (TRUE) or registration mode
  username,        \* LoginPage: the username field
  email,           \* LoginPage: the email field
  password,        \* LoginPage: the password field
  formError,       \* LoginPage: the error shown in the alert
  authCalls,       \* the bag of login/register calls in flight
  event,           \* the callback of the mounted feed that ran in the last
                   \* step; "other" after any other step
  formEvent        \* the same for the callbacks of the login form

homeVars == <<isAuthenticated, isLoading, route, navPending, activeTab>>
feedVars == <<messages, newMessage, error, intervals, inflight>>
formVars == <<isLogin, username, email, password, formError, authCalls>>
vars == <<isAuthenticated, isLoading, route, navPending, activeTab,
          messages, newMessage, error, intervals, inflight, serverMsgs,
          isLogin, username, email, password, formError, authCalls, event,
          formEvent>>

(* ------------------------------ rendering ------------------------------ *)
\* Home without the "not authenticated" early return (a faulty variant)
HomeRenderNoAuthCheck(loading, auth, tab) ==
  IF loading THEN "spinner" ELSE tab

\* what Home returns: the spinner, null, or the content of the active tab
HomeRender(loading, auth, tab) ==
  IF loading THEN "spinner"
  ELSE IF ~auth THEN "null"
  ELSE tab

\* what Discussion returns
DiscussionRender(auth) == IF ~auth THEN "pleaseLogin" ELSE "feed"

\* the Discussion component is mounted: Home is shown and renders its tab
FeedMounted(r, loading, auth, tab) ==
  r = "/" /\ HomeRender(loading, auth, tab) = "discussion"

\* what is on the screen
View(r, loading, auth, tab) ==
  IF r = "/login" THEN "loginForm"
  ELSE IF HomeRender(loading, auth, tab) = "discussion"
       THEN DiscussionRender(auth)
       ELSE HomeRender(loading, auth, tab)

Mounted == FeedMounted(route, isLoading, isAuthenticated, activeTab)
Screen == View(route, isLoading, isAuthenticated, activeTab)
\* Home renders its header (tab buttons, logout button)
HomeContent == route = "/" /\ HomeRender(isLoading, isAuthenticated, activeTab)
                                \in {"market", "discussion"}

(* --------------------------- Discussion effect ------------------------- *)
\* an effect cleanup that forgets the timer (a faulty variant)
ClearIntervalLeak(ts) == ts

\* clearInterval(interval): removes the timer of the mounted feed
ClearInterval(ts) == SelectSeq(ts, LAMBDA t : ~t)

\* the timers and requests of a feed that was unmounted belong to no view
Orphaned(ts) == [i \in DOMAIN ts |-> FALSE]
\* an unmount that aborts the requests in flight (a faulty variant)
OrphanedRequestsAborted(rs) == EmptyBag

RECURSIVE OrphanedRequests(_)
OrphanedRequests(rs) ==
  IF rs = EmptyBag THEN EmptyBag
  ELSE LET r == CHOOSE x \in BagToSet(rs) : TRUE
       IN BagAdd(OrphanedRequests(BagRemove(rs, r)),
                 [r EXCEPT !.live = FALSE, !.closure = <<>>, !.data = <<>>])

GetRequest ==
  [kind |-> "GET", live |-> TRUE, phase |-> "sent",
   body |-> <<>>, closure |-> <<>>, data |-> <<>>]

PostRequest(content, closure) ==
  [kind |-> "POST", live |-> TRUE, phase |-> "sent",
   body |-> content, closure |-> closure, data |-> <<>>]

\* the effect body runs: on mount and when isAuthenticated changed
EffectRuns(r2, l2, a2, t2) ==
  /\ FeedMounted(r2, l2, a2, t2)
  /\ ~Mounted \/ a2 # isAuthenticated

\* the cleanup of the last run is called: on unmount and before a re-run,
\* when that run returned one (it was authenticated)
CleanupRuns(r2, l2, a2, t2) ==
  /\ Mounted /\ isAuthenticated
  /\ ~FeedMounted(r2, l2, a2, t2) \/ a2 # isAuthenticated

\* the effect issues a request: room for it within the bound
CanCommit(r2, l2, a2, t2) ==
  (EffectRuns(r2, l2, a2, t2) /\ a2) => BagCardinality(inflight) < MaxInFlight

\* the feed after a re-render of the page with the new context values
FeedCommit(r2, l2, a2, t2) ==
  LET now == FeedMounted(r2, l2, a2, t2)
      gone == Mounted /\ ~now
      ts1 == IF CleanupRuns(r2, l2, a2, t2)
             THEN ClearInterval(intervals) ELSE intervals
      ts2 == IF gone THEN Orphaned(ts1) ELSE ts1
      rs1 == IF gone THEN OrphanedRequests(inflight) ELSE inflight
      starts == EffectRuns(r2, l2, a2, t2) /\ a2
  IN /\ intervals' = IF starts THEN Append(ts2, TRUE) ELSE ts2
     /\ inflight' = IF starts THEN BagAdd(rs1, GetRequest) ELSE rs1
     /\ IF Mounted /\ now
        THEN UNCHANGED <<messages, newMessage, error>>
        ELSE /\ messages' = <<>>
             /\ newMessage' = <<>>
             /\ error' = ""

\* router.push(r): nothing to do when the router already shows r
Push(r) == IF r = route THEN "none" ELSE r

\* Home's effect: push /login when Home mounts or isAuthenticated changed
\* and the viewer is not authenticated
HomeEffect(r2, a2, nav) ==
  IF r2 = "/" /\ (route # "/" \/ a2 # isAuthenticated) /\ ~a2
  THEN "/login" ELSE nav

(* ------------------------------- Init ---------------------------------- *)
Init ==
  /\ isAuthenticated \in BOOLEAN
  /\ isLoading = TRUE
  /\ route \in {"/", "/login"}
  /\ navPending = IF route = "/" /\ ~isAuthenticated THEN "/login" ELSE "none"
  /\ activeTab = "market"
  /\ messages = <<>>
  /\ newMessage = <<>>
  /\ error = ""
  /\ intervals = <<>>
  /\ inflight = EmptyBag
  /\ serverMsgs = <<>>
  /\ isLogin = TRUE
  /\ username = <<>>
  /\ email = <<>>
  /\ password = <<>>
  /\ formError = ""
  /\ authCalls = EmptyBag
  /\ event = "other"
  /\ formEvent = "other"

(* --------------------------- AuthContext ------------------------------- *)
\* the stored session was read: the viewer is logged in or not
AuthLoaded(a) ==
  /\ isLoading
  /\ CanCommit(route, FALSE, a, activeTab)
  /\ isLoading' = FALSE
  /\ isAuthenticated' = a
  /\ navPending' = HomeEffect(route, a, navPending)
  /\ FeedCommit(route, FALSE, a, activeTab)
  /\ event' = "other"
  /\ formEvent' = "other"
  /\ UNCHANGED <<route, activeTab, serverMsgs, formVars>>

\* the Logout button of the dashboard header
Logout ==
  /\ HomeContent
  /\ isAuthenticated' = FALSE
  /\ navPending' = HomeEffect(route, FALSE, navPending)
  /\ FeedCommit(route, isLoading, FALSE, activeTab)
  /\ event' = "other"
  /\ formEvent' = "other"
  /\ UNCHANGED <<isLoading, route, activeTab, serverMsgs, formVars>>

(* ------------------------------- Home ---------------------------------- *)
\* the Market and Discussion buttons
SetActiveTab(t) ==
  /\ HomeContent
  /\ CanCommit(route, isLoading, isAuthenticated, t)
  /\ activeTab' = t
  /\ FeedCommit(route, isLoading, isAuthenticated, t)
  /\ event' = "other"
  /\ formEvent' = "other"
  /\ UNCHANGED <<isAuthenticated, isLoading, route, navPending, serverMsgs,
                 formVars>>

(* ------------------------------ router --------------------------------- *)
\* the calls of a login page that was unmounted belong to no view
RECURSIVE OrphanedCalls(_)
OrphanedCalls(cs) ==
  IF cs = EmptyBag THEN EmptyBag
  ELSE LET c == CHOOSE x \in BagToSet(cs) : TRUE
       IN BagAdd(OrphanedCalls(BagRemove(cs, c)), [c EXCEPT !.live = FALSE])

\* LoginPage mounts with its initial state and loses its state on unmount
FormCommit(r) ==
  IF r = route
  THEN UNCHANGED formVars
  ELSE /\ isLogin' = TRUE
       /\ username' = <<>>
       /\ email' = <<>>
       /\ password' = <<>>
       /\ formError' = ""
       /\ authCalls' = OrphanedCalls(authCalls)

\* the page at r replaces the page shown; a page that mounts starts with
\* its initial state (Home: the market tab)
ShowPage(r, nav) ==
  LET t2 == IF r = "/" /\ route # "/" THEN "market" ELSE activeTab
  IN /\ CanCommit(r, isLoading, isAuthenticated, t2)
     /\ route' = r
     /\ activeTab' = t2
     /\ navPending' = HomeEffect(r, isAuthenticated, nav)
     /\ FeedCommit(r, isLoading, isAuthenticated, t2)
     /\ FormCommit(r)
     /\ UNCHANGED <<isAuthenticated, isLoading, serverMsgs>>

\* a pushed navigation is carried out
RouteChange ==
  /\ navPending # "none"
  /\ ShowPage(navPending, "none")
  /\ event' = "other"
  /\ formEvent' = "other"

\* the viewer goes to the other page (history back or forward)
PopState(r) ==
  /\ r # route
  /\ ShowPage(r, navPending)
  /\ event' = "other"
  /\ formEvent' = "other"

(* --------------------------- Discussion -------------------------------- *)
\* the feed's form is on the screen
FeedVisible == Mounted /\ DiscussionRender(isAuthenticated) = "feed"

\* onChange of the input
SetNewMessage(text) ==
  /\ FeedVisible
  /\ text # newMessage
  /\ newMessage' = text
  /\ event' = "other"
  /\ formEvent' = "other"
  /\ UNCHANGED <<formVars, homeVars, messages, error, intervals, inflight, serverMsgs>>

\* a handleSubmit that returns while a send is in flight (a faulty variant)
HandleSubmitOneAtATime ==
  /\ FeedVisible
  /\ IF \/ Trim(newMessage) = <<>>
        \/ \E q \in BagToSet(inflight) : q.kind = "POST" /\ q.live
     THEN UNCHANGED inflight
     ELSE /\ BagCardinality(inflight) < MaxInFlight
          /\ inflight' = BagAdd(inflight, PostRequest(newMessage, messages))
  /\ event' = "handleSubmit"
  /\ formEvent' = "other"
  /\ UNCHANGED <<formVars, homeVars, messages, newMessage, error, intervals, serverMsgs>>

\* handleSubmit up to the first await: the guard and the POST
HandleSubmit ==
  /\ FeedVisible
  /\ IF Trim(newMessage) = <<>>
     THEN UNCHANGED inflight
     ELSE /\ BagCardinality(inflight) < MaxInFlight
          /\ inflight' = BagAdd(inflight, PostRequest(newMessage, messages))
  /\ event' = "handleSubmit"
  /\ formEvent' = "other"
  /\ UNCHANGED <<formVars, homeVars, messages, newMessage, error, intervals, serverMsgs>>

\* the polling timer fires: fetchMessages up to the first await
Tick(i) ==
  /\ i \in DOMAIN intervals
  /\ BagCardinality(inflight) < MaxInFlight
  /\ inflight' = BagAdd(inflight, [GetRequest EXCEPT !.live = intervals[i]])
  /\ event' = "other"
  /\ formEvent' = "other"
  /\ UNCHANGED <<formVars, homeVars, messages, newMessage, error, intervals, serverMsgs>>

(* ------------------------------ server --------------------------------- *)
NewMessage(content, who) ==
  [id |-> Len(serverMsgs) + 1, content |-> content, username |-> who]

\* the response arrives; nothing reads the body of a response whose feed
\* was unmounted
Reply(q, body) ==
  [q EXCEPT !.phase = "replied", !.data = IF q.live THEN body ELSE <<>>]

\* GET /api/discussions is answered with the list as it is now
ServerGet(r) ==
  /\ BagIn(r, inflight)
  /\ r.kind = "GET" /\ r.phase = "sent"
  /\ inflight' = BagAdd(BagRemove(inflight, r), Reply(r, serverMsgs))
  /\ event' = "other"
  /\ formEvent' = "other"
  /\ UNCHANGED <<formVars, homeVars, messages, newMessage, error, intervals, serverMsgs>>

\* POST /api/discussions creates the message and answers with it
ServerPost(r) ==
  /\ BagIn(r, inflight)
  /\ r.kind = "POST" /\ r.phase = "sent"
  /\ Len(serverMsgs) < MaxId
  /\ LET m == NewMessage(r.body, "me")
     IN /\ serverMsgs' = <<m>> \o serverMsgs
        /\ inflight' = BagAdd(BagRemove(inflight, r), Reply(r, <<m>>))
  /\ event' = "other"
  /\ formEvent' = "other"
  /\ UNCHANGED <<formVars, homeVars, messages, newMessage, error, intervals>>

\* another user posts a message
OtherUserPost ==
  /\ Len(serverMsgs) < MaxId
  /\ serverMsgs' = <<NewMessage(OtherContent, "other")>> \o serverMsgs
  /\ event' = "other"
  /\ formEvent' = "other"
  /\ UNCHANGED <<formVars, homeVars, feedVars>>

(* ----------------------- Discussion, continuations --------------------- *)
\* a refresh that keeps the old list behind the new one (a faulty variant)
FetchedListMerged(data, prev) == data \o prev

\* setMessages(data) of fetchMessages
FetchedList(data, prev) == data

\* a catch that empties the list (a faulty variant)
ListAfterFetchErrorCleared(prev) == <<>>

\* the list after the catch of fetchMessages: no setMessages call
ListAfterFetchError(prev) == prev

\* a fetchMessages that clears the error when it succeeds (a faulty variant)
FetchOkClearsError(r) ==
  /\ BagIn(r, inflight)
  /\ r.kind = "GET" /\ r.phase = "replied"
  /\ inflight' = BagRemove(inflight, r)
  /\ messages' = IF r.live
                 THEN FetchedList(r.data, messages) ELSE messages
  /\ error' = IF r.live THEN "" ELSE error
  /\ event' = IF r.live THEN "fetchOk" ELSE "other"
  /\ formEvent' = "other"
  /\ UNCHANGED <<formVars, homeVars, newMessage, intervals, serverMsgs>>

\* fetchMessages after its awaits, the response being OK and readable
FetchOk(r) ==
  /\ BagIn(r, inflight)
  /\ r.kind = "GET" /\ r.phase = "replied"
  /\ inflight' = BagRemove(inflight, r)
  /\ messages' = IF r.live
                 THEN FetchedList(r.data, messages) ELSE messages
  /\ event' = IF r.live THEN "fetchOk" ELSE "other"
  /\ formEvent' = "other"
  /\ UNCHANGED <<formVars, homeVars, newMessage, error, intervals, serverMsgs>>

\* fetchMessages ends in its catch
FetchFail(r, why) ==
  /\ BagIn(r, inflight)
  /\ r.kind = "GET"
  /\ why # "network" => r.phase = "replied"
  /\ inflight' = BagRemove(inflight, r)
  /\ messages' = IF r.live
                 THEN ListAfterFetchError(messages) ELSE messages
  /\ error' = IF r.live THEN LoadError ELSE error
  /\ event' = IF r.live THEN "fetchFail" ELSE "other"
  /\ formEvent' = "other"
  /\ UNCHANGED <<formVars, homeVars, newMessage, intervals, serverMsgs>>

\* a functional update, which prepends to the list of the completion time
\* (a faulty variant)
SentListCurrent(q) == q.data \o messages

\* setMessages([data, ...messages]): messages is the list of the render
\* in which the form was submitted
SentList(q) == q.data \o q.closure

\* a catch that also clears the input (a faulty variant)
InputAfterSendErrorCleared(text) == <<>>

\* the input after the catch of handleSubmit: no setNewMessage call
InputAfterSendError(text) == text

\* handleSubmit after its awaits, the response being OK and readable
SendOk(r) ==
  /\ BagIn(r, inflight)
  /\ r.kind = "POST" /\ r.phase = "replied"
  /\ inflight' = BagRemove(inflight, r)
  /\ IF r.live
     THEN /\ messages' = SentList(r)
          /\ newMessage' = <<>>
     ELSE UNCHANGED <<messages, newMessage>>
  /\ event' = IF r.live THEN "sendOk" ELSE "other"
  /\ formEvent' = "other"
  /\ UNCHANGED <<formVars, homeVars, error, intervals, serverMsgs>>

\* handleSubmit ends in its catch
SendFail(r, why) ==
  /\ BagIn(r, inflight)
  /\ r.kind = "POST"
  /\ why # "network" => r.phase = "replied"
  /\ inflight' = BagRemove(inflight, r)
  /\ error' = IF r.live THEN SendError ELSE error
  /\ newMessage' = IF r.live
                   THEN InputAfterSendError(newMessage) ELSE newMessage
  /\ event' = IF r.live THEN "sendFail" ELSE "other"
  /\ formEvent' = "other"
  /\ UNCHANGED <<formVars, homeVars, messages, intervals, serverMsgs>>

(* ----------------------------- LoginPage ------------------------------- *)
\* the Login and Register buttons above the form
SetIsLogin(b) ==
  /\ route = "/login"
  /\ isLogin' = b
  /\ formError' = ""
  /\ event' = "other"
  /\ formEvent' = "other"
  /\ UNCHANGED <<homeVars, feedVars, serverMsgs,
                 username, email, password, authCalls>>

\* onChange of the username field
SetUsername(u) ==
  /\ route = "/login"
  /\ u # username
  /\ username' = u
  /\ event' = "other"
  /\ formEvent' = "other"
  /\ UNCHANGED <<homeVars, feedVars, serverMsgs,
                 isLogin, email, password, formError, authCalls>>

\* onChange of the email field, which only the registration mode renders
SetEmail(e) ==
  /\ route = "/login"
  /\ ~isLogin
  /\ e # email
  /\ email' = e
  /\ event' = "other"
  /\ formEvent' = "other"
  /\ UNCHANGED <<homeVars, feedVars, serverMsgs,
                 isLogin, username, password, formError, authCalls>>

\* onChange of the password field
SetPassword(pw) ==
  /\ route = "/login"
  /\ pw # password
  /\ password' = pw
  /\ event' = "other"
  /\ formEvent' = "other"
  /\ UNCHANGED <<homeVars, feedVars, serverMsgs,
                 isLogin, username, email, formError, authCalls>>

\* the first test of validateForm
UsernameCheckFails(u) == u = <<>> \/ Len(Trim(u)) < MinUsernameLen

\* a password test that accepts one character less (a faulty variant)
PasswordCheckFailsShort(pw) == pw = <<>> \/ Len(pw) < MinPasswordLen - 1

\* the second test of validateForm
PasswordCheckFails(pw) == pw = <<>> \/ Len(pw) < MinPasswordLen

\* an email test that only looks for an empty field (a faulty variant)
EmailCheckFailsEmptyOnly(login, e) == ~login /\ e = <<>>

\* the third test of validateForm
EmailCheckFails(login, e) == ~login /\ (e = <<>> \/ ~Includes(e, "@"))

\* validateForm: the error it sets, "" when it returns true
ValidateForm(login, u, e, pw) ==
  IF UsernameCheckFails(u) THEN UsernameError
  ELSE IF PasswordCheckFails(pw) THEN PasswordError
  ELSE IF EmailCheckFails(login, e) THEN EmailError
  ELSE ""

AuthCall(login) ==
  [mode |-> IF login THEN "login" ELSE "register", live |-> TRUE]

\* handleSubmit of the form up to its await: setError(''), validateForm,
\* and the call of login or register
LoginSubmit ==
  /\ route = "/login"
  /\ LET err == ValidateForm(isLogin, username, email, password)
     IN /\ formError' = err
        /\ IF err # ""
           THEN UNCHANGED authCalls
           ELSE /\ BagCardinality(authCalls) < MaxAuthCalls
                /\ authCalls' = BagAdd(authCalls, AuthCall(isLogin))
  /\ event' = "other"
  /\ formEvent' = "loginSubmit"
  /\ UNCHANGED <<homeVars, feedVars, serverMsgs,
                 isLogin, username, email, password>>

\* login or register resolved: AuthContext holds the user, and handleSubmit
\* goes on to router.push('/')
AuthOk(c) ==
  /\ BagIn(c, authCalls)
  /\ CanCommit(route, isLoading, TRUE, activeTab)
  /\ authCalls' = BagRemove(authCalls, c)
  /\ isAuthenticated' = TRUE
  /\ navPending' = Push("/")
  /\ FeedCommit(route, isLoading, TRUE, activeTab)
  /\ event' = "other"
  /\ formEvent' = IF c.live THEN "authOk" ELSE "other"
  /\ UNCHANGED <<isLoading, route, activeTab, serverMsgs,
                 isLogin, username, email, password, formError>>

\* a catch with the fallback text of the login mode only (a faulty variant)
AuthErrorTextLoginOnly(msg, mode) ==
  IF msg # "" THEN msg ELSE LoginFailedError

\* the error the catch of handleSubmit sets
AuthErrorText(msg, mode) ==
  IF msg # "" THEN msg
  ELSE IF mode = "login" THEN LoginFailedError ELSE RegisterFailedError

\* login or register rejected: handleSubmit ends in its catch
AuthFail(c, msg) ==
  /\ BagIn(c, authCalls)
  /\ authCalls' = BagRemove(authCalls, c)
  /\ formError' = IF c.live
                  THEN AuthErrorText(msg, c.mode) ELSE formError
  /\ event' = "other"
  /\ formEvent' = IF c.live THEN "authFail" ELSE "other"
  /\ UNCHANGED <<homeVars, feedVars, serverMsgs,
                 isLogin, username, email, password>>

(* ---------------------------- specifications -------------------------- *)
\* AuthContext, the dashboard header and the navigations the code pushes
ShellStep ==
  \/ \E a \in BOOLEAN : AuthLoaded(a)
  \/ Logout
  \/ RouteChange

\* the polling of the feed: mount and unmount by the tabs, the timer and
\* the GET requests
PollStep ==
  \/ \E t \in {"market", "discussion"} : SetActiveTab(t)
  \/ \E i \in DOMAIN intervals : Tick(i)
  \/ \E r \in BagToSet(inflight) : ServerGet(r)
  \/ \E r \in BagToSet(inflight) : FetchOk(r)
  \/ \E r \in BagToSet(inflight), why \in Failures : FetchFail(r, why)

\* the viewer writes and sends messages
SendStep ==
  \/ \E text \in MessageInputs : SetNewMessage(text)
  \/ HandleSubmit
  \/ \E r \in BagToSet(inflight) : ServerPost(r)
  \/ \E r \in BagToSet(inflight) : SendOk(r)
  \/ \E r \in BagToSet(inflight), why \in Failures : SendFail(r, why)

\* the calls the login form has in flight end
AuthStep ==
  \/ \E c \in BagToSet(authCalls) : AuthOk(c)
  \/ \E c \in BagToSet(authCalls), msg \in AuthFailureMessages : AuthFail(c, msg)

\* One visit of the dashboard, from the page load to the logout: the feed
\* with its polling and its sends, and the server, whose messages are the
\* viewer's.
Next ==
  \/ ShellStep
  \/ PollStep
  \/ SendStep

Spec == Init /\ [][Next]_vars

\* The sessions of a viewer who reads the feed: logging in (with a valid
\* username and password) and out, moving between the pages and the tabs,
\* while the feed polls and other users post.
SessionNext ==
  \/ ShellStep
  \/ \E r \in {"/", "/login"} : PopState(r)
  \/ PollStep
  \/ OtherUserPost
  \/ SetUsername(ValidUsername)
  \/ SetPassword(ValidPassword)
  \/ LoginSubmit
  \/ AuthStep

SessionSpec == Init /\ [][SessionNext]_vars

\* The login page with every input of the form, for a viewer who stays on
\* the market tab of the dashboard.
LoginNext ==
  \/ ShellStep
  \/ \E r \in {"/", "/login"} : PopState(r)
  \/ \E b \in BOOLEAN : SetIsLogin(b)
  \/ \E u \in UsernameInputs : SetUsername(u)
  \/ \E e \in EmailInputs : SetEmail(e)
  \/ \E pw \in PasswordInputs : SetPassword(pw)
  \/ LoginSubmit
  \/ AuthStep

LoginSpec == Init /\ [][LoginNext]_vars

(* ------------------------------ the claims ----------------------------- *)
\* the step ends the request q of the mounted feed
Ends(q) == q.live /\ BagIn(q, inflight) /\ inflight' = BagRemove(inflight, q)

\* the step starts a feed request
RequestStarted == BagCardinality(inflight') > BagCardinality(inflight)

\* the step issues a login or register call
CallIssued == BagCardinality(authCalls') > BagCardinality(authCalls)

\* a text of nothing but spaces
IsBlank(s) == \A i \in DOMAIN s : s[i] = " "

\* C1: a send whose POST succeeds leaves the server's message followed by
\* the list that was visible right before, one element longer, and an empty
\* input, whatever happened while the POST was in flight.
C1_SendPrependsToVisibleList ==
  [][\A q \in BagToSet(inflight) :
       (q.kind = "POST" /\ Ends(q) /\ event' = "sendOk")
       => /\ messages' = q.data \o messages
          /\ Len(messages') = Len(messages) + 1
          /\ newMessage' = <<>>]_vars

\* C2: a fetchMessages call that fails leaves the list as it was displayed
\* and sets the error string to 'Failed to load messages'.
C2_FailedFetchKeepsList ==
  [][\A q \in BagToSet(inflight) :
       (q.kind = "GET" /\ Ends(q) /\ event' = "fetchFail")
       => /\ messages' = messages
          /\ error' = "Failed to load messages"]_vars

\* C2 witness: a fetch failed while the feed showed messages
C2_Witness ==
  /\ event = "fetchFail"
  /\ messages # <<>>
  /\ error = "Failed to load messages"

\* C3: submitting an empty or whitespace-only input starts no request and
\* leaves the list, the input and the error string as they were.
C3_BlankSubmitDoesNothing ==
  [][(event' = "handleSubmit" /\ IsBlank(newMessage))
     => UNCHANGED <<inflight, messages, newMessage, error>>]_vars

\* C3 witness: the form was submitted with a whitespace-only input
C3_Witness ==
  /\ event = "handleSubmit"
  /\ newMessage # <<>> /\ IsBlank(newMessage)
  /\ \A q \in BagToSet(inflight) : q.kind # "POST"

\* C4: no GET /api/discussions is started while the viewer is logged out:
\* every step that starts a request ends with the viewer authenticated.
C4_NoRefreshAfterLogout ==
  [][RequestStarted => isAuthenticated']_vars

\* C4 witness: the viewer logged out while requests of the polling feed
\* were in flight, and the timer is gone
C4_Witness ==
  /\ ~isAuthenticated /\ ~isLoading
  /\ inflight # EmptyBag
  /\ intervals = <<>>

\* C5: a fetchMessages call that succeeds makes the list exactly the
\* response, with nothing of the previous list kept.
C5_FetchReplacesList ==
  [][\A q \in BagToSet(inflight) :
       (q.kind = "GET" /\ Ends(q) /\ event' = "fetchOk")
       => messages' = q.data]_vars

\* C5 witness: a refresh left a list that lacks a message the viewer sent
C5_Witness ==
  /\ event = "fetchOk"
  /\ messages # <<>>
  /\ \E i \in DOMAIN serverMsgs :
       /\ serverMsgs[i].username = "me"
       /\ \A j \in DOMAIN messages : messages[j] # serverMsgs[i]

\* C6: a send that fails sets the error string to 'Failed to send message'
\* and leaves the input and the list as they were.
C6_FailedSendKeepsInput ==
  [][\A q \in BagToSet(inflight) :
       (q.kind = "POST" /\ Ends(q) /\ event' = "sendFail")
       => /\ error' = "Failed to send message"
          /\ newMessage' = newMessage
          /\ messages' = messages]_vars

\* C6 witness: a send failed and the typed text is still in the input
C6_Witness ==
  /\ event = "sendFail"
  /\ newMessage # <<>>
  /\ error = "Failed to send message"

\* C7: the feed has at most one polling timer, and it has one exactly when
\* it is mounted and the viewer is authenticated.
C7_OneTimerWhileMountedAndAuthenticated ==
  /\ Len(intervals) <= 1
  /\ (intervals # <<>>) <=> (Mounted /\ isAuthenticated)

\* C7 witness: the viewer went back to the market tab while the feed's
\* requests were in flight, and the feed's timer is gone
C7_Witness ==
  /\ route = "/" /\ isAuthenticated /\ ~isLoading
  /\ activeTab = "market"
  /\ inflight # EmptyBag
  /\ intervals = <<>>

\* a valid email for the registration: not empty, with an '@'
EmailValid(e) == e # <<>> /\ \E i \in DOMAIN e : e[i] = "@"
\* the username and password tests of the form pass
UsernameAccepted(u) == Len(Trim(u)) >= 3
PasswordAccepted(pw) == Len(pw) >= 6

\* C8 as stated: in registration mode register is called only with a valid
\* email, and any other email sets 'Please enter a valid email address'
\* with no auth call; in login mode the email field decides nothing.
C8_EmailOnlyForRegistration ==
  [][formEvent' = "loginSubmit"
     => /\ (~isLogin /\ CallIssued) => EmailValid(email)
        /\ (~isLogin /\ ~EmailValid(email))
           => (formError' = EmailError /\ ~CallIssued)
        /\ isLogin
           => (CallIssued
               <=> (UsernameAccepted(username) /\ PasswordAccepted(password)))
       ]_vars

\* C8 amended: as C8, but an invalid email sets the email error only when
\* the username and the password pass their tests, which come first.
C8_EmailOnlyForRegistrationAmended ==
  [][formEvent' = "loginSubmit"
     => /\ (~isLogin /\ CallIssued) => EmailValid(email)
        /\ (~isLogin /\ ~EmailValid(email))
           => /\ ~CallIssued
              /\ formError' \in {UsernameError, PasswordError, EmailError}
              /\ (UsernameAccepted(username) /\ PasswordAccepted(password))
                 => formError' = EmailError
        /\ isLogin
           => (CallIssued
               <=> (UsernameAccepted(username) /\ PasswordAccepted(password)))
       ]_vars

\* C8 witness: a registration was submitted with an invalid email and the
\* email error is shown, no call being made
C8_Witness ==
  /\ formEvent = "loginSubmit"
  /\ ~isLogin /\ ~EmailValid(email)
  /\ formError = EmailError
  /\ authCalls = EmptyBag

\* the error of the first test that fails, in the order username, password,
\* email; "" when none fails
FirstFailure(login, u, e, pw) ==
  IF ~UsernameAccepted(u) THEN UsernameError
  ELSE IF ~PasswordAccepted(pw) THEN PasswordError
  ELSE IF ~login /\ ~EmailValid(e) THEN EmailError
  ELSE ""

\* C9: in both modes an auth call is made only with a username of at least
\* 3 and a password of at least 6 characters; when a test fails, the error
\* of the first failing test is set and there is no call and no navigation.
C9_ValidationBeforeAuthCall ==
  [][formEvent' = "loginSubmit"
     => /\ CallIssued => (Len(username) >= 3 /\ Len(password) >= 6)
        /\ FirstFailure(isLogin, username, email, password) # ""
           => /\ formError'
                   = FirstFailure(isLogin, username, email, password)
              /\ ~CallIssued
              /\ navPending' = navPending /\ route' = route
       ]_vars

\* C9 witness: a submit with a valid username and a password that is too
\* short shows the password error
C9_Witness ==
  /\ formEvent = "loginSubmit"
  /\ UsernameAccepted(username) /\ ~PasswordAccepted(password)
  /\ password # <<>>
  /\ formError = PasswordError
  /\ authCalls = EmptyBag

\* C10: whenever the dashboard is shown to a viewer who is not
\* authenticated, a navigation to /login is pending and neither tab is
\* rendered; the tabs are rendered only for an authenticated viewer whose
\* session has been loaded.
C10_DashboardOnlyWhenAuthenticated ==
  /\ (route = "/" /\ ~isAuthenticated)
     => (navPending = "/login" /\ Screen \in {"spinner", "null"})
  /\ Screen \in {"market", "feed", "pleaseLogin"}
     => (isAuthenticated /\ ~isLoading)

\* C10 witness: the viewer logged out on the discussion tab; Home renders
\* nothing and the navigation to /login is pending
C10_Witness ==
  /\ route = "/" /\ ~isAuthenticated /\ ~isLoading
  /\ activeTab = "discussion"
  /\ Screen = "null"
  /\ navPending = "/login"

\* the messages of a list
Shown(list) == { list[i] : i \in DOMAIN list }

\* C11: a refresh that completes leaves none of the messages its response
\* lacks, so one whose response was produced before a message was created
\* removes that message from the list a send has prepended it to, although
\* the POST succeeded: the last writer wins.
C11_StaleRefreshOverwritesSend ==
  [][\A q \in BagToSet(inflight) :
       (q.kind = "GET" /\ Ends(q) /\ event' = "fetchOk")
       => \A m \in Shown(messages) :
            m \notin Shown(q.data) => m \notin Shown(messages')]_vars

\* C11 witness: a refresh completed and the list lacks a message the
\* server created for the viewer; no send has failed, and a later send,
\* still in flight, was submitted while the list showed that message
C11_Witness ==
  /\ event = "fetchOk"
  /\ error = ""
  /\ \E m \in Shown(serverMsgs) :
       /\ m.username = "me"
       /\ m \notin Shown(messages)
       /\ \E p \in BagToSet(inflight) :
            p.kind = "POST" /\ p.live /\ m \in Shown(p.closure)

\* C12: a submit records the list of its render, and the send that
\* completes writes the returned message followed by that list, whatever
\* the list is at completion: a message that came in between, other than
\* the returned one, is dropped.
C12_SendWritesListOfSubmitTime ==
  [][/\ (event' = "handleSubmit" /\ RequestStarted)
        => \E p \in BagToSet(inflight') :
             /\ p.kind = "POST" /\ p.closure = messages
             /\ inflight' = BagAdd(inflight, p)
     /\ \A q \in BagToSet(inflight) :
          (q.kind = "POST" /\ Ends(q) /\ event' = "sendOk")
          => /\ messages' = q.data \o q.closure
             /\ \A m \in Shown(messages) :
                  m \notin Shown(q.closure) \cup Shown(q.data)
                  => m \notin Shown(messages')
    ]_vars

\* C12 witness: a send completed and the list lacks a message that it
\* showed when a later send, still in flight, was submitted
C12_Witness ==
  /\ event = "sendOk"
  /\ error = ""
  /\ \E m \in Shown(serverMsgs) :
       /\ m \notin Shown(messages)
       /\ \E p \in BagToSet(inflight) :
            p.kind = "POST" /\ p.live /\ m \in Shown(p.closure)

\* C13: the server giving every message a fresh id and lists without
\* repeated ids, no two messages of the local list have the same id.
C13_UniqueIds ==
  \A i, j \in DOMAIN messages :
    i # j => messages[i].id # messages[j].id

\* C13 witness: a send completed and the list shows two messages
C13_Witness ==
  /\ event = "sendOk"
  /\ Len(messages) = 2
  /\ messages[1].id # messages[2].id

C15_ErrorNeverCleared ==
  [][/\ event' \in {"fetchFail", "sendFail"} => error' # ""
     /\ (Mounted /\ Mounted' /\ error # "")
        => /\ error' \in {"Failed to load messages", "Failed to send message"}
           /\ error' # error => event' \in {"fetchFail", "sendFail"}]_vars

\* C15 witness: a send succeeded after a fetch had failed, and the error
\* of the fetch is still shown
C15_Witness ==
  /\ event = "sendOk"
  /\ messages # <<>>
  /\ error = "Failed to load messages"

\* C16: a submit of a non-empty text starts a POST with that text and
\* leaves the input as it is, also while sends with the same text are in
\* flight; so one text can be sent twice and create two messages.
C16_SubmitWhileSendInFlight ==
  [][(event' = "handleSubmit" /\ ~IsBlank(newMessage))
     => /\ newMessage' = newMessage
        /\ \E p \in BagToSet(inflight') :
             /\ p.kind = "POST" /\ p.body = newMessage /\ p.phase = "sent"
             /\ inflight' = BagAdd(inflight, p)]_vars

\* C16 witness: two sends of the text that is still in the input are in
\* flight, and the server has created a message for each
C16_Witness ==
  /\ ~IsBlank(newMessage)
  /\ error = ""
  /\ \E p1, p2 \in BagToSet(inflight) :
       /\ p1.kind = "POST" /\ p1.live /\ p1.phase = "replied"
       /\ p2.kind = "POST" /\ p2.live /\ p2.phase = "replied"
       /\ p1.body = newMessage /\ p2.body = newMessage
       /\ p1.data # p2.data
       /\ Shown(p1.data) \cup Shown(p2.data) \subseteq Shown(serverMsgs)

\* the step ends the call c of the login form that is shown
CallEnds(c) ==
  c.live /\ BagIn(c, authCalls) /\ authCalls' = BagRemove(authCalls, c)

\* the fallback text of a failed call
FallbackText(mode) ==
  IF mode = "login" THEN "Invalid username or password"
  ELSE "Registration failed"

\* C17: a submit of the login form leaves no earlier error (only that of
\* a failed test, or none) and navigates nowhere; the call it makes is
\* that of the mode of the form; '/' is pushed only in a step in which an
\* auth call succeeds; a call that fails sets its message or the fallback
\* text of its mode and changes neither page nor mode.
C17_SubmitClearsErrorAndNavigatesOnSuccess ==
  [][/\ formEvent' = "loginSubmit"
        => /\ formError' \in {"", UsernameError, PasswordError, EmailError}
           /\ CallIssued
              => /\ formError' = ""
                 /\ \E c \in BagToSet(authCalls') :
                      /\ c.mode = (IF isLogin THEN "login" ELSE "register")
                      /\ authCalls' = BagAdd(authCalls, c)
           /\ navPending' = navPending /\ route' = route
     /\ (navPending' = "/" /\ navPending # "/")
        => /\ isAuthenticated'
           /\ \E c \in BagToSet(authCalls) :
                authCalls' = BagRemove(authCalls, c)
     /\ \A c \in BagToSet(authCalls) :
          (CallEnds(c) /\ formEvent' = "authFail")
          => /\ formError' \in (AuthFailureMessages \ {""})
                                 \cup {FallbackText(c.mode)}
             /\ navPending' = navPending /\ route' = route
             /\ isLogin' = isLogin
    ]_vars

\* C17 witness: a registration was rejected without a message: the form
\* shows 'Registration failed', in registration mode, with no navigation
C17_Witness ==
  /\ formEvent = "authFail"
  /\ route = "/login" /\ navPending = "none"
  /\ ~isAuthenticated
  /\ ~isLogin
  /\ formError = "Registration failed"
====
